---- MODULE Spec2Model ----
(***************************************************************************)
(* A model of the deadlock_proof_mutex crate (src/src/lib.rs) and of the   *)
(* programs its types accept (src/src/main.rs).                            *)
(*                                                                         *)
(* Permission tokens are values whose shape is their Rust type:            *)
(*   <<"R">>          OuterMutexPermission                                 *)
(*   <<"N", P, I>>    NestedMutexPermission<P, I>     (P is phantom)       *)
(*   <<"S", P, I>>    SequentialMutexPermission<P, I> (P is a real field)  *)
(* An action of a thread is enabled exactly when the call it stands for    *)
(* type-checks against the signatures in lib.rs and the thread owns the    *)
(* values the call moves.                                                  *)
(***************************************************************************)
EXTENDS Bags, FiniteSets, Integers, Sequences, TLC

\* The threads of the program: the main thread and the one it spawns.
Threads == {"main", "spawned"}

\* The thread the program starts on.
MainThread == "main"

\* The mutex identifier types of the program, one per mutex.
Cells == {"A", "B", "C"}

\* The content given to DeadlockProofMutex::new, and the contents stored.
InitialValue == 0
Values == {0, 10}

\* Largest number of NestedMutexPermission values a thread may own at once.
MaxNested == 2

VARIABLES
    cellPerm,     \* cell -> the permission type P of DeadlockProofMutex<T, P, I>
    slot,         \* thread -> TRUE iff MUTEX_PERMISSION_TOKEN holds Some(..)
    caps,         \* thread -> bag of permission tokens the thread owns, free
    guards,       \* thread -> set of guards (and poison errors) it owns
    pc,           \* thread -> "unborn" | "run" | "blocked" | "done" | "panicked"
    pending,      \* thread -> the lock call it is inside of
    holder,       \* cell -> thread whose MutexGuard locks the Mutex, or "free"
    poisoned,     \* cell -> poison flag of the Mutex
    gets,         \* thread -> number of OuterMutexPermission::get calls made
    net,          \* thread -> tokens produced - consumed - destroyed by drop
    origins,      \* thread -> threads whose get() began a chain it has owned
    value,        \* cell -> the content of the Mutex
    written       \* cell -> the content last stored through a guard

vars == <<cellPerm, slot, caps, guards, pc, pending, holder, poisoned,
          gets, net, origins, value, written>>

----------------------------------------------------------------------------
(* Permission types and values *)

R == <<"R">>
N(P, I) == <<"N", P, I>>
S(P, I) == <<"S", P, I>>

NoPerm == <<"-">>
NoCall == [cell |-> "-", perm |-> NoPerm, nested |-> FALSE]

\* Number of OuterMutexPermission values stored inside a token: the
\* sequential permission owns its predecessor, the nested one does not.
RECURSIVE RootCount(_)
RootCount(p) ==
    IF p[1] = "R" THEN 1
    ELSE IF p[1] = "S" THEN RootCount(p[2])
    ELSE 0

\* Number of NestedMutexPermission values stored inside a token.
RECURSIVE NestedCount(_)
NestedCount(p) ==
    IF p[1] = "N" THEN 1
    ELSE IF p[1] = "S" THEN NestedCount(p[2])
    ELSE 0

One(p) == SetToBag({p})

----------------------------------------------------------------------------
(* The programs: which permission type each mutex is declared with *)

ExclusiveCfg == [c \in Cells |-> R]

\* The nested chain A, B; no mutex is declared with identifier C.
NestedCfg ==
    [c \in Cells |->
        IF c = "A" THEN R
        ELSE IF c = "B" THEN N(R, "A")
        ELSE NoPerm]

SequentialCfg ==
    [c \in Cells |->
        IF c = "A" THEN R
        ELSE IF c = "B" THEN S(R, "A")
        ELSE S(S(R, "A"), "B")]

Configs == {ExclusiveCfg, NestedCfg, SequentialCfg}

----------------------------------------------------------------------------
(* Derived views of the state *)

Holds(t, c) == \E g \in guards[t] : g.cell = c /\ g.kind # "err"

\* The guards of a thread, not counting a PoisonError it keeps.
LiveGuards(t) == {g \in guards[t] : g.kind # "err"}

\* PoisonError<MutexGuard<T>>: it locks the mutex and has no permission.
PoisonErr(c) == [cell |-> c, kind |-> "err", perm |-> NoPerm]

\* Every token value a thread owns, as <<where, token, which>>: the copies
\* it has free, the one captive in each guard, and the one moved into a
\* lock call that has not returned.
Tokens(t) ==
    UNION {{<<"free", p, i>> : i \in 1..CopiesIn(p, caps[t])} :
              p \in BagToSet(caps[t])}
    \cup {<<"guard", g.perm, g.cell>> : g \in guards[t]}
    \cup {<<"call", pending[t].perm, pending[t].cell>>}

RootsOf(t) == Cardinality({x \in Tokens(t) : RootCount(x[2]) = 1})

NestedOf(t) == Cardinality({x \in Tokens(t) : NestedCount(x[2]) = 1})

----------------------------------------------------------------------------
(* lib.rs *)

\* thread_local! initialiser: the slot starts as Some(OuterMutexPermission).
InitialSlot == TRUE

\* As TakeSlot, had get() read the slot without emptying it.
TakeSlotKeeps(s) == s

\* Cell::take leaves None in the slot.
TakeSlot(s) == FALSE

\* As PermissionMatches, had the mutex identifier not been part of the
\* permission's type.
PermissionIgnoresIdentity(p, c) == p[1] = cellPerm[c][1]

\* As PermissionMatches, had lock accepted any MutexPermission.
PermissionAny(p, c) == TRUE

\* lock/lock_for_nested take `permission: P` of the mutex's own P.
PermissionMatches(p, c) == p = cellPerm[c]

\* As MutexAvailable, had lock not waited for the mutex.
MutexAlways(c) == TRUE

\* Mutex::lock returns once no other MutexGuard locks the mutex.
MutexAvailable(c) == holder[c] = "free"

\* As LockIsErr, had lock discarded the poison error.
LockNeverErr(c) == FALSE

\* Mutex::lock returns Err(PoisonError) iff the poison flag is set; `map`
\* builds the guard only for Ok.
LockIsErr(c) == poisoned[c]

\* lock_for_nested's nested permission.
NestedPermissionFor(c) == N(cellPerm[c], c)

\* As NestedTokenMatches, had unlock taken any nested permission.
NestedTokenAny(n, g) == n[1] = "N"

\* NestedGuard::unlock takes `_token: NestedMutexPermission<P, I>`.
NestedTokenMatches(n, g) == n = N(g.perm, g.cell)

\* As UnlockReturns, had unlock returned a fresh root permission.
UnlockReturnsRoot(g) == R

\* Guard::unlock and NestedGuard::unlock return self.1.
UnlockReturns(g) == g.perm

\* unlock_for_sequential returns SequentialMutexPermission::new(self.1).
SequentialReturns(g) == S(g.perm, g.cell)

\* As EarlierOf, had to_earlier unwrapped every layer at once.
EarlierToRoot(s) == R

\* to_earlier returns self.1.
EarlierOf(s) == s[2]

\* As Consume, had the permission been Copy.
ConsumeCopies(bag, p) == bag

\* Moving a token out of the caller's hands.
Consume(bag, p) == bag (-) One(p)

\* Dropping the MutexGuard frees the mutex; it sets the poison flag when
\* the thread is unwinding from a panic.
ReleaseAll(t, panicking) ==
    /\ holder' = [c \in Cells |-> IF holder[c] = t THEN "free" ELSE holder[c]]
    /\ poisoned' = [c \in Cells |->
                      IF holder[c] = t /\ panicking THEN TRUE ELSE poisoned[c]]

TypeOK ==
    /\ cellPerm \in Configs
    /\ slot \in [Threads -> BOOLEAN]
    /\ pc \in [Threads -> {"unborn", "run", "blocked", "done", "panicked"}]
    /\ origins \in [Threads -> SUBSET Threads]
    /\ value \in [Cells -> Values]
    /\ written \in [Cells -> Values]
    /\ holder \in [Cells -> Threads \cup {"free"}]
    /\ poisoned \in [Cells -> BOOLEAN]
    /\ \A t \in Threads : IsABag(caps[t])

Init ==
    /\ cellPerm \in Configs
    /\ slot = [t \in Threads |-> InitialSlot]
    /\ caps = [t \in Threads |-> EmptyBag]
    /\ guards = [t \in Threads |-> {}]
    /\ pc = [t \in Threads |-> IF t = MainThread THEN "run" ELSE "unborn"]
    /\ pending = [t \in Threads |-> NoCall]
    /\ holder = [c \in Cells |-> "free"]
    /\ poisoned = [c \in Cells |-> FALSE]
    /\ gets = [t \in Threads |-> 0]
    /\ net = [t \in Threads |-> 0]
    /\ origins = [t \in Threads |-> {}]
    /\ value = [c \in Cells |-> InitialValue]
    /\ written = [c \in Cells |-> InitialValue]

\* The thread unwinds: every guard and token it owns is dropped, and the
\* mutexes it had locked are poisoned.
Unwind(t) ==
    /\ pc' = [pc EXCEPT ![t] = "panicked"]
    /\ pending' = [pending EXCEPT ![t] = NoCall]
    /\ caps' = [caps EXCEPT ![t] = EmptyBag]
    /\ guards' = [guards EXCEPT ![t] = {}]
    /\ net' = [net EXCEPT ![t] = @ - BagCardinality(caps[t])]
    /\ ReleaseAll(t, TRUE)

\* OuterMutexPermission::get
Get(t) ==
    /\ pc[t] = "run"
    /\ gets' = [gets EXCEPT ![t] = @ + 1]
    /\ slot' = [slot EXCEPT ![t] = TakeSlot(@)]
    /\ IF slot[t]
       THEN /\ caps' = [caps EXCEPT ![t] = @ (+) One(R)]
            /\ net' = [net EXCEPT ![t] = @ + 1]
            /\ origins' = [origins EXCEPT ![t] = @ \cup {t}]
            /\ UNCHANGED <<guards, pc, pending, holder, poisoned>>
       ELSE /\ Unwind(t)
            /\ UNCHANGED origins
    /\ UNCHANGED <<cellPerm, value, written>>

\* As Acquired, had the error given the permission back to the caller.
AcquiredKeepsPermission(t, c, p, nested, bag, n) ==
    /\ holder' = [holder EXCEPT ![c] = t]
    /\ IF LockIsErr(c)
       THEN /\ guards' = [guards EXCEPT ![t] = @ \cup {PoisonErr(c)}]
            /\ caps' = [caps EXCEPT ![t] = bag (+) One(p)]
            /\ net' = [net EXCEPT ![t] = n + 1]
       ELSE /\ guards' = [guards EXCEPT ![t] =
                  @ \cup {[cell |-> c,
                           kind |-> IF nested THEN "nested" ELSE "plain",
                           perm |-> p]}]
            /\ caps' = [caps EXCEPT ![t] =
                  IF nested THEN bag (+) One(NestedPermissionFor(c)) ELSE bag]
            /\ net' = [net EXCEPT ![t] = IF nested THEN n + 1 ELSE n]

\* Mutex::lock has locked the mutex and `map` builds the result: the guard
\* with the permission inside (and the nested permission beside it) for Ok,
\* the PoisonError that owns the MutexGuard for Err, the permission dropped
\* with the closure that was not called. `bag` is what the thread has in
\* hand, `n` its balance, the permission p already moved out of both.
Acquired(t, c, p, nested, bag, n) ==
    /\ holder' = [holder EXCEPT ![c] = t]
    /\ IF LockIsErr(c)
       THEN /\ guards' = [guards EXCEPT ![t] = @ \cup {PoisonErr(c)}]
            /\ caps' = [caps EXCEPT ![t] = bag]
            /\ net' = [net EXCEPT ![t] = n]
       ELSE IF nested
       THEN /\ guards' = [guards EXCEPT ![t] =
                  @ \cup {[cell |-> c, kind |-> "nested", perm |-> p]}]
            /\ caps' = [caps EXCEPT ![t] = bag (+) One(NestedPermissionFor(c))]
            /\ net' = [net EXCEPT ![t] = n + 1]
       ELSE /\ guards' = [guards EXCEPT ![t] =
                  @ \cup {[cell |-> c, kind |-> "plain", perm |-> p]}]
            /\ caps' = [caps EXCEPT ![t] = bag]
            /\ net' = [net EXCEPT ![t] = n]

\* DeadlockProofMutex::lock / lock_for_nested: the permission is moved into
\* the call; the call returns at once when the mutex is free and otherwise
\* leaves the thread waiting in Mutex::lock.
LockCall(t, c, nested) ==
    /\ pc[t] = "run"
    /\ nested => NestedOf(t) < MaxNested
    /\ \E p \in BagToSet(caps[t]) :
        /\ PermissionMatches(p, c)
        /\ IF MutexAvailable(c)
           THEN /\ Acquired(t, c, p, nested, Consume(caps[t], p), net[t] - 1)
                /\ UNCHANGED <<pc, pending>>
           ELSE /\ caps' = [caps EXCEPT ![t] = Consume(@, p)]
                /\ net' = [net EXCEPT ![t] = @ - 1]
                /\ pending' = [pending EXCEPT ![t] =
                                  [cell |-> c, perm |-> p, nested |-> nested]]
                /\ pc' = [pc EXCEPT ![t] = "blocked"]
                /\ UNCHANGED <<guards, holder>>
    /\ UNCHANGED <<cellPerm, origins, value, written, slot, poisoned, gets>>

\* DeadlockProofMutex::lock / lock_for_nested, the return of a call that
\* had to wait.
LockReturn(t) ==
    /\ pc[t] = "blocked"
    /\ MutexAvailable(pending[t].cell)
    /\ Acquired(t, pending[t].cell, pending[t].perm, pending[t].nested,
                caps[t], net[t])
    /\ pc' = [pc EXCEPT ![t] = "run"]
    /\ pending' = [pending EXCEPT ![t] = NoCall]
    /\ UNCHANGED <<cellPerm, origins, value, written, slot, poisoned, gets>>

\* As Release, had the release waited for a thread to hand the mutex to.
ReleaseHandsOver(c) ==
    /\ \E u \in Threads : pc[u] = "blocked" /\ pending[u].cell = c
    /\ holder' = [holder EXCEPT ![c] = "free"]

\* As Release, had the guard been forgotten with its MutexGuard still locked.
ReleaseKeeps(c) == holder' = holder

\* Dropping one guard's MutexGuard outside a panic.
Release(c) == holder' = [holder EXCEPT ![c] = "free"]

\* DeadlockProofMutexGuard::unlock
Unlock(t, g) ==
    /\ pc[t] = "run"
    /\ g \in guards[t] /\ g.kind = "plain"
    /\ guards' = [guards EXCEPT ![t] = @ \ {g}]
    /\ caps' = [caps EXCEPT ![t] = @ (+) One(UnlockReturns(g))]
    /\ net' = [net EXCEPT ![t] = @ + 1]
    /\ Release(g.cell)
    /\ UNCHANGED <<cellPerm, origins, value, written, slot, pc, pending, poisoned, gets>>

\* DeadlockProofMutexGuard::unlock_for_sequential
UnlockForSequential(t, g) ==
    /\ pc[t] = "run"
    /\ g \in guards[t] /\ g.kind = "plain"
    /\ guards' = [guards EXCEPT ![t] = @ \ {g}]
    /\ caps' = [caps EXCEPT ![t] = @ (+) One(SequentialReturns(g))]
    /\ net' = [net EXCEPT ![t] = @ + 1]
    /\ Release(g.cell)
    /\ UNCHANGED <<cellPerm, origins, value, written, slot, pc, pending, poisoned, gets>>

\* DeadlockProofNestedMutexGuard::unlock: the token is moved in and dropped.
NestedUnlock(t, g) ==
    /\ pc[t] = "run"
    /\ g \in guards[t] /\ g.kind = "nested"
    /\ \E n \in BagToSet(caps[t]) :
        /\ NestedTokenMatches(n, g)
        /\ caps' = [caps EXCEPT ![t] = Consume(@, n) (+) One(UnlockReturns(g))]
    /\ guards' = [guards EXCEPT ![t] = @ \ {g}]
    /\ Release(g.cell)
    /\ UNCHANGED <<cellPerm, origins, value, written, slot, pc, pending, poisoned, gets, net>>

\* DeadlockProofNestedMutexGuard::unlock_for_sequential
NestedUnlockForSequential(t, g) ==
    /\ pc[t] = "run"
    /\ g \in guards[t] /\ g.kind = "nested"
    /\ guards' = [guards EXCEPT ![t] = @ \ {g}]
    /\ caps' = [caps EXCEPT ![t] = @ (+) One(SequentialReturns(g))]
    /\ net' = [net EXCEPT ![t] = @ + 1]
    /\ Release(g.cell)
    /\ UNCHANGED <<cellPerm, origins, value, written, slot, pc, pending, poisoned, gets>>

\* SequentialMutexPermission::to_earlier
ToEarlier(t, s) ==
    /\ pc[t] = "run"
    /\ BagIn(s, caps[t]) /\ s[1] = "S"
    /\ caps' = [caps EXCEPT ![t] = Consume(@, s) (+) One(EarlierOf(s))]
    /\ UNCHANGED <<cellPerm, origins, value, written, slot, guards, pc, pending, holder, poisoned,
                   gets, net>>

\* A guard, or the PoisonError that owns a MutexGuard, goes out of scope:
\* the mutex is freed and the permission inside the guard is dropped with it.
DropGuard(t, g) ==
    /\ pc[t] = "run"
    /\ g \in guards[t]
    /\ guards' = [guards EXCEPT ![t] = @ \ {g}]
    /\ Release(g.cell)
    /\ UNCHANGED <<cellPerm, origins, value, written, slot, caps, pc, pending, poisoned, gets, net>>

\* A permission token goes out of scope.
DropPermission(t, p) ==
    /\ pc[t] = "run"
    /\ BagIn(p, caps[t])
    /\ caps' = [caps EXCEPT ![t] = Consume(@, p)]
    /\ net' = [net EXCEPT ![t] = @ - 1]
    /\ UNCHANGED <<cellPerm, origins, value, written, slot, guards, pc, pending, holder, poisoned,
                   gets>>

\* The thread's own code panics (an unwrap of a PoisonError, a failed
\* assert_eq!) and the thread unwinds.
Panic(t) ==
    /\ pc[t] = "run"
    /\ Unwind(t)
    /\ UNCHANGED <<cellPerm, origins, value, written, slot, gets>>

\* Mutex::lock on a mutex the calling thread has locked never returns: the
\* thread stays blocked or panics, whichever the platform does.
RelockPanic(t) ==
    /\ pc[t] = "blocked"
    /\ holder[pending[t].cell] = t
    /\ Unwind(t)
    /\ UNCHANGED <<cellPerm, origins, value, written, slot, gets>>

\* The thread's closure returns: everything it owns goes out of scope.
Exit(t) ==
    /\ pc[t] = "run"
    /\ pc' = [pc EXCEPT ![t] = "done"]
    /\ caps' = [caps EXCEPT ![t] = EmptyBag]
    /\ guards' = [guards EXCEPT ![t] = {}]
    /\ net' = [net EXCEPT ![t] = @ - BagCardinality(caps[t])]
    /\ ReleaseAll(t, FALSE)
    /\ UNCHANGED <<cellPerm, origins, value, written, slot, pending, gets>>

\* As IsSend, had the permissions carried no PhantomData<Rc<()>>.
IsSendAlways(p) == TRUE

\* Send is an auto trait: every permission struct has a PhantomData<Rc<()>>
\* field, and Rc is not Send.
IsSend(p) == p[1] \notin {"R", "N", "S"}

\* thread::spawn(move || ..): the closure takes the values it captures to
\* the new thread, and it must be Send.
Spawn(t, u) ==
    /\ pc[t] = "run"
    /\ pc[u] = "unborn"
    /\ \E X \in SUBSET BagToSet(caps[t]) :
        /\ \A p \in X : IsSend(p)
        /\ caps' = [caps EXCEPT ![t] = @ (-) SetToBag(X), ![u] = SetToBag(X)]
        /\ net' = [net EXCEPT ![t] = @ - Cardinality(X), ![u] = Cardinality(X)]
        /\ origins' = [origins EXCEPT ![u] = IF X = {} THEN {} ELSE origins[t]]
    /\ pc' = [pc EXCEPT ![u] = "run"]
    /\ UNCHANGED <<cellPerm, slot, guards, pending, holder, poisoned, gets,
                   value, written>>

\* As CanAccess, had the content been reachable without the guard.
CanAccessAlways(t, c) == cellPerm[c] # NoPerm

\* Deref and DerefMut of the two guards; a PoisonError gives the content
\* through the MutexGuard inside it.
CanAccess(t, c) == \E g \in guards[t] : g.cell = c

\* `*guard = v`
Write(t, c, v) ==
    /\ pc[t] = "run"
    /\ CanAccess(t, c)
    /\ value' = [value EXCEPT ![c] = v]
    /\ written' = [written EXCEPT ![c] = IF Holds(t, c) THEN v ELSE @]
    /\ UNCHANGED <<cellPerm, slot, caps, guards, pc, pending, holder,
                   poisoned, gets, net, origins>>

\* Every guard value the program can hold.
AllGuards == UNION {guards[t] : t \in Threads}

\* Every token value the program can hold free.
AllPerms == UNION {BagToSet(caps[t]) : t \in Threads}

Next ==
    \/ \E t \in Threads : Get(t)
    \/ \E t \in Threads, c \in Cells, nested \in BOOLEAN : LockCall(t, c, nested)
    \/ \E t \in Threads : LockReturn(t)
    \/ \E t \in Threads, g \in AllGuards : Unlock(t, g)
    \/ \E t \in Threads, g \in AllGuards : UnlockForSequential(t, g)
    \/ \E t \in Threads, g \in AllGuards : NestedUnlock(t, g)
    \/ \E t \in Threads, g \in AllGuards : NestedUnlockForSequential(t, g)
    \/ \E t \in Threads, s \in AllPerms : ToEarlier(t, s)
    \/ \E t \in Threads, g \in AllGuards : DropGuard(t, g)
    \/ \E t \in Threads, p \in AllPerms : DropPermission(t, p)
    \/ \E t \in Threads : Panic(t)
    \/ \E t \in Threads : RelockPanic(t)
    \/ \E t \in Threads : Exit(t)
    \/ \E t \in Threads, u \in Threads : Spawn(t, u)

\* The locking protocol. No action of it reads the content of a mutex, so
\* the content is left out of its steps.
Spec == Init /\ [][Next]_vars

\* The nested program with the stores into its mutexes.
DataInit == Init /\ cellPerm = NestedCfg

DataNext ==
    \/ Next
    \/ \E t \in Threads, c \in Cells, v \in Values : Write(t, c, v)

DataSpec == DataInit /\ [][DataNext]_vars

----------------------------------------------------------------------------
(* Deadlock freedom *)

BlockedOn(t, c) == pc[t] = "blocked" /\ pending[t].cell = c

\* A set of threads each waiting for a mutex locked by a thread of the set.
Deadlocked(D) ==
    /\ D # {}
    /\ \A t \in D : pc[t] = "blocked" /\ holder[pending[t].cell] \in D

\* C1: no reachable state has a non-empty set of threads each blocked in
\* lock/lock_for_nested on a cell locked by a thread of that same set.
C1_NoDeadlock == \A D \in SUBSET Threads : ~Deadlocked(D)

----------------------------------------------------------------------------
(* Single root per thread *)

\* What a step that is a call of get() by thread t must look like.
GetStepOK(t) ==
    /\ \A u \in Threads \ {t} : slot'[u] = slot[u]
    /\ IF gets[t] = 0
       THEN /\ pc'[t] = "run"
            /\ caps'[t] = caps[t] (+) One(R)
       ELSE /\ pc'[t] = "panicked"
            /\ caps'[t] = EmptyBag

\* C2: on every thread the first get() returns the root permission and
\* every later one panics, whatever became of the first permission; the
\* slot starts full, is never refilled, and a call on one thread leaves the
\* other threads' slots alone.
C2_SingleRoot ==
    /\ \A t \in Threads : slot[t]
    /\ [][\A t \in Threads :
            /\ ~slot[t] => ~slot'[t]
            /\ gets'[t] # gets[t] => GetStepOK(t)
            /\ gets'[t] = gets[t] => slot'[t] = slot[t]]_vars

\* A thread made a second get() while it held a guard (its first permission
\* captive in it): it is the only thread that panicked, and its unwinding
\* poisoned the mutex.
C2_Witness ==
    \E t \in Threads :
        /\ gets[t] = 2 /\ pc[t] = "panicked"
        /\ \A u \in Threads \ {t} : pc[u] # "panicked"
        /\ \E c \in Cells : poisoned[c]

----------------------------------------------------------------------------
(* Exclusive discipline *)

\* C3: when every mutex is declared over OuterMutexPermission, each thread
\* has at most one live guard, plain or nested.
C3_Exclusive ==
    cellPerm = ExclusiveCfg =>
        \A t \in Threads : Cardinality(LiveGuards(t)) <= 1

\* A thread holds a nested guard and, free, the nested permission that
\* came with it, while another mutex is unlocked.
C3_Witness ==
    /\ cellPerm = ExclusiveCfg
    /\ \E t \in Threads : \E g \in guards[t] :
        /\ g.kind = "nested"
        /\ BagIn(N(R, g.cell), caps[t])
        /\ \E c \in Cells \ {g.cell} : holder[c] = "free"

----------------------------------------------------------------------------
(* Nested discipline *)

\* C4: in the nested chain a thread holds a deeper cell only while it holds
\* the cell before it: C(i+1) is acquired while C(i) is held, and C(i) is
\* not freed, by any release path, while a deeper guard is held.
C4_NestedDiscipline ==
    cellPerm = NestedCfg =>
        \A t \in Threads : Holds(t, "B") => Holds(t, "A")

----------------------------------------------------------------------------
(* Sequential discipline *)

\* The cell before c in the chain A, B, C.
Pred(c) == IF c = "C" THEN "B" ELSE "A"

\* Number of SequentialMutexPermission<_, c> values stored inside a token.
RECURSIVE SeqCount(_, _)
SeqCount(p, c) ==
    IF p[1] = "S"
    THEN (IF p[3] = c THEN 1 ELSE 0) + SeqCount(p[2], c)
    ELSE 0

SeqOwned(t, c) == Cardinality({x \in Tokens(t) : SeqCount(x[2], c) = 1})

\* C5: in the sequential chain a thread never holds two cells at once, a
\* cell after the first is locked with the sequential permission of the
\* cell before it, and that permission comes into being only in a step
\* that releases the thread's guard on the cell before.
C5_Sequential ==
    /\ [](cellPerm = SequentialCfg =>
            \A t \in Threads :
                /\ Cardinality(guards[t]) <= 1
                /\ \A c \in {"B", "C"} :
                    Holds(t, c) \/ BlockedOn(t, c) =>
                        /\ SeqOwned(t, Pred(c)) = 1
                        /\ ~Holds(t, Pred(c)))
    /\ [][cellPerm = SequentialCfg =>
            \A t \in Threads : \A c \in Cells :
                SeqOwned(t, c)' > SeqOwned(t, c) =>
                    /\ Holds(t, c)
                    /\ ~Holds(t, c)'
                    /\ holder'[c] = "free"]_vars

\* A thread holds the last cell of the chain, which it locked with the
\* permission of two sequential releases.
C5_Witness ==
    /\ cellPerm = SequentialCfg
    /\ \E t \in Threads :
        /\ Holds(t, "C")
        /\ SeqOwned(t, "A") = 1 /\ SeqOwned(t, "B") = 1

----------------------------------------------------------------------------
(* Mutual exclusion *)

\* A lock or lock_for_nested call of thread t on cell c returns in this step.
Locks(t, c) == holder[c] # t /\ holder'[c] = t

\* The guards on cell c, of all threads.
GuardsOn(c) ==
    UNION {{<<t, g>> : g \in {h \in guards[t] : h.cell = c}} : t \in Threads}

\* C6: at most one guard on a cell is live across all threads, and a lock
\* call on a held cell does not return while that guard is live.
C6_MutualExclusion ==
    /\ [](\A c \in Cells : Cardinality(GuardsOn(c)) <= 1)
    /\ [][\A t \in Threads : \A c \in Cells :
            Locks(t, c) => GuardsOn(c) = {}]_vars

\* A thread waits in lock for a cell on which another thread has a guard.
C6_Witness ==
    \E t \in Threads, u \in Threads, c \in Cells :
        t # u /\ BlockedOn(t, c) /\ Holds(u, c)

----------------------------------------------------------------------------
(* Poison propagation *)

\* The tokens a thread owns: free, captive in a guard, moved into a call.
Owned(t) ==
    BagCardinality(caps[t]) + Cardinality(LiveGuards(t))
    + (IF pending[t].perm # NoPerm THEN 1 ELSE 0)

Panics(t) == pc[t] # "panicked" /\ pc'[t] = "panicked"

\* C7: a thread that panics holding a guard poisons that cell and no other;
\* the poison stays, every lock that returns on a poisoned cell returns the
\* error, and no guard is ever live on a poisoned cell.
C7_Poison ==
    /\ [](\A c \in Cells : poisoned[c] => \A t \in Threads : ~Holds(t, c))
    /\ [][\A c \in Cells :
            /\ poisoned[c] => poisoned'[c]
            /\ \A t \in Threads : Panics(t) /\ Holds(t, c) => poisoned'[c]
            /\ ~poisoned[c] /\ poisoned'[c] =>
                   \E t \in Threads : Panics(t) /\ holder[c] = t
            /\ \A t \in Threads :
                   Locks(t, c) /\ poisoned[c] =>
                       /\ PoisonErr(c) \in guards'[t]
                       /\ LiveGuards(t)' = LiveGuards(t)]_vars

\* A lock on a poisoned cell has returned the error to a thread, while
\* another cell is unpoisoned and guarded.
C7_Witness ==
    \E c \in Cells, d \in Cells, t \in Threads :
        /\ poisoned[c] /\ PoisonErr(c) \in guards[t]
        /\ ~poisoned[d] /\ \E u \in Threads : Holds(u, d)

----------------------------------------------------------------------------
(* Capability conservation *)

NestedLockReturns(t) ==
    \E c \in Cells :
        /\ Locks(t, c)
        /\ \E g \in guards'[t] : g.cell = c /\ g.kind = "nested"

\* C8: tokens produced minus tokens consumed minus tokens dropped is the
\* number of tokens the thread has in hand, and zero once the thread has
\* ended; no step makes two tokens of one: the tokens a thread owns grow
\* only by one, and only in get() and in a lock_for_nested that returns.
C8_Conservation ==
    /\ [](\A t \in Threads :
            /\ net[t] = BagCardinality(caps[t])
            /\ pc[t] \in {"done", "panicked"} => net[t] = 0)
    /\ [][\A t \in Threads :
            /\ Owned(t)' <= Owned(t) + 1
            /\ Owned(t)' > Owned(t) =>
                   gets'[t] # gets[t] \/ NestedLockReturns(t)]_vars

\* One thread has ended after taking its root; the other has a guard and
\* two free tokens, one of them a sequential permission.
C8_Witness ==
    \E t \in Threads, u \in Threads :
        /\ pc[t] = "done" /\ gets[t] = 1
        /\ LiveGuards(u) # {} /\ net[u] = 2
        /\ \E s \in BagToSet(caps[u]) : s[1] = "S"

----------------------------------------------------------------------------
(* One root per thread *)

\* C9: a thread never owns more than one OuterMutexPermission, counting a
\* free one, one captive in a guard and one inside a sequential permission.
C9_OneRoot == \A t \in Threads : RootsOf(t) <= 1

\* The root is inside a sequential permission that is captive in a guard.
C9_Witness ==
    \E t \in Threads : \E g \in guards[t] :
        g.perm[1] = "S" /\ RootCount(g.perm) = 1

----------------------------------------------------------------------------
(* Permission and cell types match *)

\* C10: a guard holds captive a permission of exactly the cell's type P, a
\* lock call is made with one, and NestedGuard::unlock on a guard of cell I
\* takes exactly N<P, I> from the caller and gives P.
C10_TypeMatch ==
    /\ [](\A t \in Threads :
            /\ \A g \in LiveGuards(t) : g.perm = cellPerm[g.cell]
            /\ pc[t] = "blocked" => pending[t].perm = cellPerm[pending[t].cell])
    /\ [][\A t \in Threads : \A g \in guards[t] :
            /\ g.kind = "nested" /\ g \notin guards'[t]
            /\ pc'[t] = "run" /\ net'[t] = net[t] /\ caps'[t] # caps[t]
            => caps'[t] (+) One(N(cellPerm[g.cell], g.cell))
                   = caps[t] (+) One(cellPerm[g.cell])]_vars

\* A thread holds nested guards on A and B and has B's nested permission
\* free, the one of A being captive in B's guard.
C10_Witness ==
    /\ cellPerm = NestedCfg
    /\ \E t \in Threads :
        /\ \E g \in guards[t] : g.cell = "A" /\ g.kind = "nested"
        /\ \E g \in guards[t] : g.cell = "B" /\ g.kind = "nested"
        /\ BagIn(N(N(R, "A"), "B"), caps[t])

----------------------------------------------------------------------------
(* Thread confinement *)

\* C11: every token a thread has owned, free or captive, belongs to a chain
\* that its own get() began: no token of another thread's chain reaches it,
\* and a thread that owns a token or a guard has made its own get().
C11_ThreadConfinement ==
    \A t \in Threads :
        /\ origins[t] \subseteq {t}
        /\ Owned(t) > 0 => origins[t] = {t}

\* The spawned thread runs beside the main thread; each has made its own
\* get() and holds a guard with its own root captive in it.
C11_Witness ==
    \E t \in Threads, u \in Threads :
        /\ t # u
        /\ gets[t] = 1 /\ gets[u] = 1
        /\ \E g \in LiveGuards(t) : RootCount(g.perm) = 1
        /\ \E g \in LiveGuards(u) : RootCount(g.perm) = 1

----------------------------------------------------------------------------
(* Visibility of the protected value *)

\* C12: the content a guard on a cell reads is the content last stored
\* through a guard on that cell (the one given to new when there was none),
\* whichever thread stored it and however that guard was released; a store
\* into one cell leaves the content of the others alone.
C12_Visibility ==
    \A c \in Cells :
        ~poisoned[c] \/ (\E t \in Threads : Holds(t, c)) =>
            value[c] = written[c]

\* A thread holds a guard on a cell that reads a stored content, while the
\* content of a poisoned cell was changed through a PoisonError.
C12_Witness ==
    \E t \in Threads, c \in Cells, d \in Cells :
        /\ c # d
        /\ Holds(t, c) /\ value[c] # InitialValue
        /\ poisoned[d] /\ value[d] # written[d]

----------------------------------------------------------------------------
(* Rewinding a sequential chain *)

\* Number of SequentialMutexPermission layers around a token.
RECURSIVE SeqDepth(_)
SeqDepth(p) == IF p[1] = "S" THEN 1 + SeqDepth(p[2]) ELSE 0

\* to_earlier applied j times; it is defined on sequential permissions only.
RECURSIVE Rewind(_, _)
Rewind(p, j) ==
    IF j = 0 THEN p
    ELSE IF p[1] = "S" THEN Rewind(EarlierOf(p), j - 1)
    ELSE NoPerm

\* C13: a to_earlier step turns the sequential permission into the one it
\* wraps and leaves every mutex and guard alone; a chain of k sequential
\* releases from the root is rewound to the root by exactly k to_earlier
\* calls, and the root locks any mutex declared over the root permission.
C13_Rewind ==
    /\ [](\A t \in Threads : \A p \in BagToSet(caps[t]) :
            RootCount(p) = 1 =>
                /\ \A j \in 0..SeqDepth(p) :
                       Rewind(p, j) = R <=> j = SeqDepth(p)
                /\ \A c \in Cells :
                       cellPerm[c] = R =>
                           PermissionMatches(Rewind(p, SeqDepth(p)), c))
    /\ [][\A t \in Threads :
            /\ guards'[t] = guards[t] /\ pc'[t] = pc[t] /\ net'[t] = net[t]
            /\ caps'[t] # caps[t]
            => /\ \E s \in BagToSet(caps[t]) :
                   /\ s[1] = "S"
                   /\ caps'[t] (+) One(s) = caps[t] (+) One(s[2])
               /\ holder' = holder /\ poisoned' = poisoned
               /\ guards' = guards]_vars

\* A thread has released A and B in turn, locked C for nesting, released it
\* for sequential use, rewound the three layers to the root and locked A
\* with it: C's nested permission is still in its hand.
C13_Witness ==
    /\ cellPerm = SequentialCfg
    /\ \E t \in Threads :
        /\ gets[t] = 1
        /\ BagIn(N(S(S(R, "A"), "B"), "C"), caps[t])
        /\ \E g \in guards[t] : g.cell = "A" /\ g.perm = R

----------------------------------------------------------------------------
(* What a nested permission stands for *)

\* The NestedMutexPermission value a token is or wraps, if any. The P of
\* N<P, I> is phantom: a nested permission holds no other one.
RECURSIVE NestedIn(_)
NestedIn(p) ==
    IF p[1] = "N" THEN p
    ELSE IF p[1] = "S" THEN NestedIn(p[2])
    ELSE NoPerm

\* C14: a thread that owns a nested permission N<P, I>, free, captive in a
\* guard, moved into a lock call or wrapped in a sequential permission,
\* holds the guard on cell I, locked with a permission of type P.
C14_NestedMeaning ==
    \A t \in Threads : \A x \in Tokens(t) :
        NestedIn(x[2]) # NoPerm =>
            \E g \in LiveGuards(t) :
                /\ g.cell = NestedIn(x[2])[3]
                /\ g.perm = NestedIn(x[2])[2]

----------------------------------------------------------------------------
(* The nested permission left behind by unlock_for_sequential *)

\* Thread t gives token n to lock or lock_for_nested in this step.
UsedToLock(t, n) ==
    /\ pc[t] = "run"
    /\ CopiesIn(n, caps'[t]) < CopiesIn(n, caps[t])
    /\ \/ \E c \in Cells : Locks(t, c)
       \/ pc'[t] = "blocked"

\* C15: while a thread owns the sequential permission that
\* unlock_for_sequential returned for cell I, it gives no nested permission
\* N<P, I> that outlived the guard to lock or lock_for_nested.
C15_InertAfterSequential ==
    [][\A t \in Threads : \A n \in BagToSet(caps[t]) :
          n[1] = "N" /\ SeqOwned(t, n[3]) >= 1 => ~UsedToLock(t, n)]_vars

----------------------------------------------------------------------------
(* NestedGuard::unlock and the guards below it *)

\* Thread t releases its nested guard g by NestedGuard::unlock in this step.
NestedUnlocks(t, g) ==
    /\ g \in guards[t] /\ g.kind = "nested" /\ g \notin guards'[t]
    /\ pc'[t] = "run" /\ net'[t] = net[t] /\ caps'[t] # caps[t]

\* C16: when a thread releases the guard on cell I by NestedGuard::unlock,
\* none of its guards holds captive a nested permission N<P, I> of that
\* cell: no cell locked below I is still held.
C16_NoDeeperDependency ==
    [][\A t \in Threads : \A g \in guards[t] :
          NestedUnlocks(t, g) =>
              \A h \in guards'[t] : NestedIn(h.perm) # N(g.perm, g.cell)]_vars

----------------------------------------------------------------------------
(* A guard that goes out of scope *)

\* Thread t lets its guard g go out of scope in this step.
Drops(t, g) ==
    /\ g \in LiveGuards(t) /\ g \notin guards'[t]
    /\ pc[t] = "run" /\ pc'[t] = "run"
    /\ caps'[t] = caps[t]

----------------------------------------------------------------------------
(* Suspension points *)

\* C18: a thread waits only inside lock or lock_for_nested. A thread that
\* is not inside one can at once release any guard it holds by unlock or
\* unlock_for_sequential (by NestedGuard::unlock when it has the nested
\* permission in hand), rewind any sequential permission it has, and read
\* or store the content behind any guard it holds, whatever the other
\* threads are doing.
C18_SuspensionPoints ==
    \A t \in Threads :
        /\ pc[t] = "blocked" => pending[t].cell \in Cells
        /\ pc[t] = "run" =>
            /\ \A g \in LiveGuards(t) :
                /\ \A v \in Values : ENABLED Write(t, g.cell, v)
                /\ g.kind = "plain" =>
                    /\ ENABLED Unlock(t, g)
                    /\ ENABLED UnlockForSequential(t, g)
                /\ g.kind = "nested" =>
                    /\ ENABLED NestedUnlockForSequential(t, g)
                    /\ BagIn(N(g.perm, g.cell), caps[t]) =>
                           ENABLED NestedUnlock(t, g)
            /\ \A s \in BagToSet(caps[t]) :
                s[1] = "S" => ENABLED ToEarlier(t, s)

\* A thread holds a nested guard with its nested permission in hand and
\* has a sequential permission free, while the other thread waits in lock
\* for the guarded mutex.
C18_Witness ==
    \E t \in Threads, u \in Threads :
        /\ t # u /\ pc[t] = "run"
        /\ \E g \in guards[t] :
              /\ g.kind = "nested" /\ BagIn(N(g.perm, g.cell), caps[t])
              /\ BlockedOn(u, g.cell)
        /\ \E s \in BagToSet(caps[t]) : s[1] = "S"

----------------------------------------------------------------------------
(* A lock call that returns the poison error *)

\* C19: a lock or lock_for_nested call that returns on a poisoned cell
\* gives the caller the PoisonError and nothing else: the permission it
\* moved into the call is gone, no nested permission is made, and the
\* thread owns one token fewer than before the call; the error keeps the
\* mutex locked for as long as the thread keeps the error.
C19_PoisonedLockConsumes ==
    /\ [](\A t \in Threads : \A c \in Cells :
            PoisonErr(c) \in guards[t] => holder[c] = t /\ poisoned[c])
    /\ [][\A t \in Threads : \A c \in Cells :
            Locks(t, c) /\ poisoned[c] =>
                /\ guards'[t] = guards[t] \cup {PoisonErr(c)}
                /\ Owned(t)' = Owned(t) - 1
                /\ NestedOf(t)' <= NestedOf(t)
                /\ RootsOf(t)' = RootsOf(t) - RootCount(cellPerm[c])
                /\ IF pc[t] = "run"
                   THEN caps'[t] (+) One(cellPerm[c]) = caps[t]
                   ELSE caps'[t] = caps[t] /\ pending'[t] = NoCall]_vars

\* A thread gave its root to a lock call on a poisoned cell: it keeps the
\* error, which locks the mutex, and owns no token at all.
C19_Witness ==
    \E t \in Threads, c \in Cells :
        /\ pc[t] = "run" /\ gets[t] = 1
        /\ guards[t] = {PoisonErr(c)} /\ holder[c] = t
        /\ cellPerm[c] = R
        /\ Owned(t) = 0

----------------------------------------------------------------------------
(* What a release operation does *)

\* Thread t releases its guard g by one of the four release operations in
\* this step: the guard is gone and a permission came back.
Releases(t, g) ==
    /\ g \in LiveGuards(t) /\ g \notin guards'[t]
    /\ pc[t] = "run" /\ pc'[t] = "run"
    /\ caps'[t] # caps[t]

\* C20: the step in which unlock or unlock_for_sequential, of a plain or a
\* nested guard, returns leaves the guard's mutex unlocked with no guard on
\* it, and gives the thread the permission captive in the guard, which is
\* of the cell's type P: P itself, or S<P, I> around it, or P in exchange
\* for N<P, I>. The content of every mutex, the poison flags, the other
\* mutexes and the other threads' guards and tokens stay as they were.
C20_ReleaseFrees ==
    [][\A t \in Threads : \A g \in guards[t] :
          Releases(t, g) =>
              /\ holder'[g.cell] = "free"
              /\ GuardsOn(g.cell)' = {}
              /\ g.perm = cellPerm[g.cell]
              /\ \/ caps'[t] = caps[t] (+) One(g.perm)
                 \/ caps'[t] = caps[t] (+) One(S(g.perm, g.cell))
                 \/ /\ g.kind = "nested"
                    /\ caps'[t] (+) One(N(g.perm, g.cell))
                           = caps[t] (+) One(g.perm)
              /\ \A d \in Cells \ {g.cell} : holder'[d] = holder[d]
              /\ poisoned' = poisoned
              /\ value' = value /\ written' = written
              /\ \A u \in Threads \ {t} :
                    guards'[u] = guards[u] /\ caps'[u] = caps[u]]_vars

\* A thread that holds A has released B, whose content it had changed, by
\* unlock_for_sequential: B is unlocked and the thread has the sequential
\* permission around A's nested permission.
C20_Witness ==
    \E t \in Threads :
        /\ Holds(t, "A")
        /\ BagIn(S(N(R, "A"), "B"), caps[t])
        /\ holder["B"] = "free"
        /\ value["B"] # InitialValue
====
